---- MODULE Spec2Model ----
(***************************************************************************)
(* Model of the FFmpeg MCP server (src/server.py): the request model       *)
(* FFmpegExecuteRequest, FFmpegCommandValidator, FFmpegExecutor and the    *)
(* two invocation handlers handle_mcp_message (JSON-RPC tools/call) and    *)
(* invoke_tool (REST), as a state machine over a bounded set of requests.  *)
(*                                                                         *)
(* Text is modelled as a sequence of string fragments; a command is a      *)
(* sequence of one-character strings, so that strip(), startswith() and    *)
(* the substring operator `in` are computed as Python computes them.       *)
(***************************************************************************)
EXTENDS Integers, Sequences, FiniteSets, TLC

\* ------------------------------------------------------------------ bounds

\* Number of request slots (connections the server has accepted at a time).
NumReqs == 2
\* Longest argument text that follows the head of a generated command.
MaxBody == 2

\* ------------------------------------------------------- text primitives

\* Characters str.strip() removes, among those of the model's alphabet.
Whitespace == {" ", "\t", "\n", "\r"}

RECURSIVE LStrip(_)
LStrip(s) ==
    IF s = <<>> THEN s
    ELSE IF Head(s) \in Whitespace THEN LStrip(Tail(s)) ELSE s

RECURSIVE RStrip(_)
RStrip(s) ==
    IF s = <<>> THEN s
    ELSE IF s[Len(s)] \in Whitespace THEN RStrip(SubSeq(s, 1, Len(s) - 1)) ELSE s

\* str.strip()
Strip(s) == RStrip(LStrip(s))

\* str.startswith(p)
StartsWith(s, p) == Len(s) >= Len(p) /\ SubSeq(s, 1, Len(p)) = p

\* Python's `sub in s` on strings
Contains(s, sub) ==
    \E i \in 1..(Len(s) - Len(sub) + 1) : SubSeq(s, i, i + Len(sub) - 1) = sub

Digits == <<"0", "1", "2", "3", "4", "5", "6", "7", "8", "9">>

RECURSIVE NatStr(_)
NatStr(n) ==
    IF n < 10 THEN <<Digits[n + 1]>>
    ELSE NatStr(n \div 10) \o <<Digits[(n % 10) + 1]>>

\* str(n) of an integer, as an f-string renders it
IntStr(n) == IF n < 0 THEN <<"-">> \o NatStr(-n) ELSE NatStr(n)

\* Optional[T]: <<>> is None, <<v>> is the value v.
None == <<>>
Some(v) == <<v>>
IsNone(o) == o = <<>>
Val(o) == o[1]

\* --------------------------------------------------- FFmpegExecuteRequest

FFMPEG_PREFIX == <<"f", "f", "m", "p", "e", "g", " ">>

MinTimeout == 1
MaxTimeout == 21600

\* str(e) of the pydantic ValidationError raised for one field.
ValidationErrorText(fld, msg) ==
    <<"1 validation error for FFmpegExecuteRequest\n", fld, "\n  ">> \o msg
        \o <<" (type=value_error)">>

\* FFmpegExecuteRequest(**arguments): the parsed model, or the ValueError
\* pydantic raises (error is its str(); reason is the message of the command
\* field's validator when that is what failed).  The command validator
\* returns v.strip().
FFmpegExecuteRequest(a) ==
    IF ~StartsWith(Strip(a.command), FFMPEG_PREFIX)
    THEN [ok |-> FALSE,
          error |-> ValidationErrorText("command", <<"Command must start with 'ffmpeg '">>),
          reason |-> Some(<<"Command must start with 'ffmpeg '">>),
          command |-> <<>>, workingDir |-> None, timeout |-> None]
    ELSE IF ~IsNone(a.timeout) /\ Val(a.timeout) < MinTimeout
    THEN [ok |-> FALSE,
          error |-> ValidationErrorText("timeout",
                       <<"ensure this value is greater than or equal to ">> \o IntStr(MinTimeout)),
          reason |-> None,
          command |-> <<>>, workingDir |-> None, timeout |-> None]
    ELSE IF ~IsNone(a.timeout) /\ Val(a.timeout) > MaxTimeout
    THEN [ok |-> FALSE,
          error |-> ValidationErrorText("timeout",
                       <<"ensure this value is less than or equal to ">> \o IntStr(MaxTimeout)),
          reason |-> None,
          command |-> <<>>, workingDir |-> None, timeout |-> None]
    ELSE [ok |-> TRUE, error |-> <<>>, reason |-> None,
          command |-> Strip(a.command), workingDir |-> a.workingDir,
          timeout |-> a.timeout]

\* ------------------------------------------------- FFmpegCommandValidator

\* The grave accent character (U+0060).  It is written as a named fragment
\* because the TLA+ lexer pairs a literal grave accent with the next apostrophe.
Backtick == "<backtick>"

\* The list with the ";" entry lost.
BLOCKED_OPERATORS_NoSemicolon ==
    << <<"&", "&">>, <<"|", "|">>, <<"|">>, <<">">>, <<"<">>,
       <<Backtick>>, <<"$">>, <<"$", "(">>, <<"$", "{">> >>

BLOCKED_OPERATORS ==
    << <<"&", "&">>, <<"|", "|">>, <<";">>, <<"|">>, <<">">>, <<"<">>,
       <<Backtick>>, <<"$">>, <<"$", "(">>, <<"$", "{">> >>

\* FFmpegCommandValidator.validate_command: (is_valid, error_message)
validate_command(command) ==
    IF ~StartsWith(Strip(command), FFMPEG_PREFIX)
    THEN [valid |-> FALSE, msg |-> <<"Command must start with 'ffmpeg '">>]
    ELSE IF \E i \in 1..Len(BLOCKED_OPERATORS) : Contains(command, BLOCKED_OPERATORS[i])
    THEN LET first == CHOOSE i \in 1..Len(BLOCKED_OPERATORS) :
                        /\ Contains(command, BLOCKED_OPERATORS[i])
                        /\ \A j \in 1..(i - 1) : ~Contains(command, BLOCKED_OPERATORS[j])
         IN [valid |-> FALSE,
             msg |-> <<"Blocked shell operator detected: ">> \o BLOCKED_OPERATORS[first]]
    ELSE IF Contains(command, <<"\n">>) \/ Contains(command, <<"\r">>)
    THEN [valid |-> FALSE, msg |-> <<"Newlines are not allowed in commands">>]
    ELSE [valid |-> TRUE, msg |-> <<>>]

\* Outcome of os.getcwd(): the server process's directory, or the OSError it
\* raises when that directory has been removed.
CWD == <<"/", "srv">>
GetcwdOutcomes ==
    {[raised |-> FALSE, path |-> CWD, text |-> <<>>],
     [raised |-> TRUE, path |-> <<>>,
      text |-> <<"[Errno 2] No such file or directory">>]}

\* The file system the server sees: resolved path -> what is there.
PathKind(resolved) ==
    CASE resolved = CWD -> "dir"
      [] resolved = <<"/", "media">> -> "dir"
      [] resolved = CWD \o <<"/", "clips">> -> "dir"
      [] resolved = <<"/", "media", "/", "in.mp4">> -> "file"
      [] OTHER -> "missing"

\* FFmpegCommandValidator.validate_working_dir, given what os.getcwd() does:
\* (is_valid, error_message, resolved_path), or the exception that escapes
\* (os.getcwd() is called outside the try block when working_dir is falsy).
validate_working_dir(working_dir, cwd) ==
    IF IsNone(working_dir) \/ Val(working_dir) = <<>>
    THEN IF cwd.raised
         THEN [raised |-> TRUE, text |-> cwd.text,
               valid |-> FALSE, msg |-> <<>>, resolved |-> None]
         ELSE [raised |-> FALSE, text |-> <<>>,
               valid |-> TRUE, msg |-> <<>>, resolved |-> Some(cwd.path)]
    ELSE LET wd == Val(working_dir)
             absolute == Head(wd) = "/"
         IN IF ~absolute /\ cwd.raised
            THEN [raised |-> FALSE, text |-> <<>>, valid |-> FALSE,
                  msg |-> <<"Invalid working directory: ">> \o cwd.text,
                  resolved |-> None]
            ELSE LET resolved == IF absolute THEN wd ELSE cwd.path \o <<"/">> \o wd
                 IN IF PathKind(resolved) = "missing"
                    THEN [raised |-> FALSE, text |-> <<>>, valid |-> FALSE,
                          msg |-> <<"Working directory does not exist: ">> \o resolved,
                          resolved |-> None]
                    ELSE IF PathKind(resolved) # "dir"
                    THEN [raised |-> FALSE, text |-> <<>>, valid |-> FALSE,
                          msg |-> <<"Working directory is not a directory: ">> \o resolved,
                          resolved |-> None]
                    ELSE [raised |-> FALSE, text |-> <<>>, valid |-> TRUE,
                          msg |-> <<>>, resolved |-> Some(resolved)]

\* --------------------------------------------------------- FFmpegExecutor

\* What subprocess.run(**run_kwargs) did: the child exited, the timeout
\* expired, or another exception was raised (spawn or I/O failure).
ExitOutcome(code, out, err) ==
    [kind |-> "exit", code |-> code, stdout |-> out, stderr |-> err, text |-> <<>>]
TimeoutOutcome ==
    [kind |-> "timeout", code |-> 0, stdout |-> <<>>, stderr |-> <<>>, text |-> <<>>]
ErrorOutcome(text) ==
    [kind |-> "error", code |-> 0, stdout |-> <<>>, stderr |-> <<>>, text |-> text]

\* f"{timeout if timeout is not None else 'unlimited'}"
TimeoutText(timeout) == IF IsNone(timeout) THEN <<"unlimited">> ELSE IntStr(Val(timeout))

\* execute with the final `except Exception` clause missing: an exception
\* other than TimeoutExpired leaves execute.
ExecutionResult_NoCatchAll(outcome, timeout) ==
    CASE outcome.kind = "exit" ->
           IF outcome.code = 0
           THEN [raised |-> FALSE, text |-> <<>>,
                 value |-> [success |-> TRUE, exitCode |-> 0,
                            logs |-> [stdout |-> outcome.stdout, stderr |-> outcome.stderr]]]
           ELSE [raised |-> FALSE, text |-> <<>>,
                 value |-> [success |-> FALSE, exitCode |-> outcome.code,
                            logs |-> [stdout |-> outcome.stdout, stderr |-> outcome.stderr],
                            error |-> <<"FFmpeg command failed with exit code ">>
                                        \o IntStr(outcome.code)]]
      [] outcome.kind = "timeout" ->
           LET error_msg == <<"Command timed out after ">> \o TimeoutText(timeout)
                              \o <<" seconds">>
           IN [raised |-> FALSE, text |-> <<>>,
               value |-> [success |-> FALSE, exitCode |-> -1,
                          logs |-> [stdout |-> <<>>, stderr |-> error_msg],
                          error |-> error_msg]]
      [] OTHER ->
           [raised |-> TRUE, text |-> outcome.text,
            value |-> [success |-> FALSE, exitCode |-> -1,
                       logs |-> [stdout |-> <<>>, stderr |-> <<>>]]]

\* FFmpegExecutor.execute from subprocess.run on: the dict it returns for
\* each outcome (raised is TRUE when an exception leaves execute).
ExecutionResult(outcome, timeout) ==
    CASE outcome.kind = "exit" ->
           IF outcome.code = 0
           THEN [raised |-> FALSE, text |-> <<>>,
                 value |-> [success |-> TRUE, exitCode |-> 0,
                            logs |-> [stdout |-> outcome.stdout, stderr |-> outcome.stderr]]]
           ELSE [raised |-> FALSE, text |-> <<>>,
                 value |-> [success |-> FALSE, exitCode |-> outcome.code,
                            logs |-> [stdout |-> outcome.stdout, stderr |-> outcome.stderr],
                            error |-> <<"FFmpeg command failed with exit code ">>
                                        \o IntStr(outcome.code)]]
      [] outcome.kind = "timeout" ->
           LET error_msg == <<"Command timed out after ">> \o TimeoutText(timeout)
                              \o <<" seconds">>
           IN [raised |-> FALSE, text |-> <<>>,
               value |-> [success |-> FALSE, exitCode |-> -1,
                          logs |-> [stdout |-> <<>>, stderr |-> error_msg],
                          error |-> error_msg]]
      [] OTHER ->
           LET error_msg == <<"Execution error: ">> \o outcome.text
           IN [raised |-> FALSE, text |-> <<>>,
               value |-> [success |-> FALSE, exitCode |-> -1,
                          logs |-> [stdout |-> <<>>, stderr |-> error_msg],
                          error |-> error_msg]]

\* The timeout argument both handlers pass to FFmpegExecutor.execute.
DefaultTimeout == 21600
CallTimeout(timeout) == IF ~IsNone(timeout) THEN timeout ELSE Some(DefaultTimeout)

\* ------------------------------------------------------------- responses

\* MCPMessage(jsonrpc="2.0", id=message.id, error={code, message})
RpcError(code, message) == [kind |-> "rpc_error", code |-> code, message |-> message]

\* raise HTTPException(status_code, detail) as the HTTP response it becomes
HttpError(status, detail) == [kind |-> "http_error", status |-> status, detail |-> detail]

\* str(HTTPException(status_code, detail))
HttpExceptionText(status, detail) == IntStr(status) \o <<": ">> \o detail

SucceededWord(success) == IF success THEN <<"succeeded">> ELSE <<"failed">>

\* handle_mcp_message: the tools/call response for what execute returned;
\* an exception out of execute reaches the handler's outer `except Exception`.
RpcExecResponse(res) ==
    IF res.raised
    THEN RpcError(-32603, <<"Internal error: ">> \o res.text)
    ELSE LET v == res.value
         IN [kind |-> "rpc_result",
             text |-> <<"FFmpeg execution ">> \o SucceededWord(v.success)
                        \o <<"\n\nExit Code: ">> \o IntStr(v.exitCode)
                        \o <<"\n\nStdout:\n">> \o v.logs.stdout
                        \o <<"\n\nStderr:\n">> \o v.logs.stderr,
             isError |-> ~v.success]

\* invoke_tool: the HTTP 200 body for what execute returned; an exception
\* out of execute reaches the handler's `except Exception`.
RestExecResponse(res) ==
    IF res.raised
    THEN HttpError(500, <<"Internal server error: ">> \o res.text)
    ELSE [kind |-> "http_ok", status |-> 200,
          text |-> <<"FFmpeg execution ">> \o SucceededWord(res.value.success),
          result |-> res.value]

\* invoke_tool: a validator failure is raised as HTTPException(400) inside
\* the try block, where `except Exception` catches it (HTTPException is not a
\* ValueError) and raises HTTPException(500) in its place.
RestValidatorFailure(msg) ==
    HttpError(500, <<"Internal server error: ">> \o HttpExceptionText(400, msg))

\* handle_mcp_message: a validator failure is returned as error -32602.
RpcValidatorFailure(msg) == RpcError(-32602, msg)

\* ------------------------------------------------------------ the inputs

Reqs == 1..NumReqs

Routes == {"POST /", "POST /mcp/tools/{tool_name}/invoke", "GET /mcp/tools", "GET /health"}
RpcRoute == "POST /"
RestRoute == "POST /mcp/tools/{tool_name}/invoke"

\* JSON-RPC methods other than tools/call ("resources/list" stands for any
\* method the server does not know).
OtherMethods == {"initialize", "tools/list", "resources/list"}

Alphabet == {"a", " ", "\n", "\r", "&", "|", ";", ">", "<", Backtick, "$", "(", "{"}
Bodies == UNION {[1..n -> Alphabet] : n \in 0..MaxBody}
Heads == {<<>>, FFMPEG_PREFIX, <<"f", "f", "m", "p", "e", "g">>}
Leads == {<<>>, <<" ">>, <<"\n">>}
AllCommands == {l \o h \o b : l \in Leads, h \in Heads, b \in Bodies}

\* The `arguments` of a tool call that leave the optional arguments out, with
\* every generated command.
CommandArguments ==
    {[command |-> c, workingDir |-> None, timeout |-> None] : c \in AllCommands}

SampleCommands ==
    {FFMPEG_PREFIX \o <<"a">>,
     FFMPEG_PREFIX \o <<"a", "\n">>,
     FFMPEG_PREFIX \o <<"a", ";", "a">>,
     <<"l", "s">>}
WorkingDirs ==
    {None, Some(<<>>), Some(<<"/", "media">>), Some(<<"/", "media", "/", "in.mp4">>),
     Some(<<"/", "missing">>), Some(<<"clips">>)}
Timeouts == {None, Some(0), Some(1), Some(600), Some(601), Some(21600), Some(21601)}

\* The `arguments` of a tool call with every working directory and timeout,
\* for a few commands.
Arguments == [command : SampleCommands, workingDir : WorkingDirs, timeout : Timeouts]

ExitCodes == {0, 1}
\* What the process wrote: (stdout, stderr)
Outputs == {<< <<>>, <<>> >>, << <<"ffmpeg version 6.0">>, <<"frame=1">> >>}
SpawnErrors == {<<"[Errno 2] No such file or directory: ">>}
RunErrors == {<<"'utf-8' codec can't decode byte 0xff">>}

\* -------------------------------------------------------------- the state

VARIABLES
    pc,          \* [Reqs -> position of the request's handler]
    route,       \* [Reqs -> the route the request came in on, or "none"]
    req,         \* [Reqs -> the arguments as submitted]
    args,        \* [Reqs -> the FFmpegExecuteRequest built from them]
    failure,     \* [Reqs -> None or the reason a validator gave for rejecting]
    resolved,    \* [Reqs -> None or the resolved working directory]
    steps,       \* [Reqs -> the validator and executor calls made, in order]
    execHist,    \* [Reqs -> the states the execute call went through]
    execTimeout, \* [Reqs -> the timeout argument execute was called with]
    child,       \* [Reqs -> the process Popen started: none/running/exited/killed]
    desc,        \* [Reqs -> the processes that child started: none/running/exited]
    launches,    \* [Reqs -> number of processes Popen started for the request]
    results,     \* [Reqs -> number of result dicts execute built]
    result,      \* [Reqs -> None or what execute returned]
    response,    \* [Reqs -> None or the response of the handler]
    loop         \* the request whose handler the event loop is running, or 0

vars == <<pc, route, req, args, failure, resolved, steps, execHist, execTimeout,
          child, desc, launches, results, result, response, loop>>

handlerVars == <<route, req, args, failure, resolved, steps, response>>
execVars == <<execHist, execTimeout, child, desc, launches, results, result>>

NoArgs == [command |-> <<>>, workingDir |-> None, timeout |-> None]

Init ==
    /\ pc = [r \in Reqs |-> "idle"]
    /\ route = [r \in Reqs |-> "none"]
    /\ req = [r \in Reqs |-> NoArgs]
    /\ args = [r \in Reqs |-> NoArgs]
    /\ failure = [r \in Reqs |-> None]
    /\ resolved = [r \in Reqs |-> None]
    /\ steps = [r \in Reqs |-> <<>>]
    /\ execHist = [r \in Reqs |-> <<>>]
    /\ execTimeout = [r \in Reqs |-> None]
    /\ child = [r \in Reqs |-> "none"]
    /\ desc = [r \in Reqs |-> "none"]
    /\ launches = [r \in Reqs |-> 0]
    /\ results = [r \in Reqs |-> 0]
    /\ result = [r \in Reqs |-> None]
    /\ response = [r \in Reqs |-> None]
    /\ loop = 0

\* ----------------------------------------------------- the protocol layer

\* A client's request reaches the server on one of its routes.
Receive(r, rt) ==
    /\ pc[r] = "idle"
    /\ pc' = [pc EXCEPT ![r] = "pending"]
    /\ route' = [route EXCEPT ![r] = rt]
    /\ UNCHANGED <<req, args, failure, resolved, steps, response, loop>>
    /\ UNCHANGED execVars

\* health_check
HealthCheck(r) ==
    /\ loop = 0 /\ pc[r] = "pending" /\ route[r] = "GET /health"
    /\ loop' = r
    /\ pc' = [pc EXCEPT ![r] = "done"]
    /\ response' = [response EXCEPT ![r] =
                      Some([kind |-> "json", status |-> <<"healthy">>])]
    /\ UNCHANGED <<route, req, args, failure, resolved, steps>>
    /\ UNCHANGED execVars

\* The timeout property of the inputSchema both discovery surfaces serve.
SchemaDefaultTimeout == 120
SchemaMaxTimeout == 600
SchemaMinTimeout == 1

\* get_tools
GetTools(r) ==
    /\ loop = 0 /\ pc[r] = "pending" /\ route[r] = "GET /mcp/tools"
    /\ loop' = r
    /\ pc' = [pc EXCEPT ![r] = "done"]
    /\ response' = [response EXCEPT ![r] =
                      Some([kind |-> "tools", name |-> <<"ffmpeg.execute">>,
                            default |-> Some(SchemaDefaultTimeout),
                            minimum |-> Some(SchemaMinTimeout),
                            maximum |-> Some(SchemaMaxTimeout)])]
    /\ UNCHANGED <<route, req, args, failure, resolved, steps>>
    /\ UNCHANGED execVars

\* handle_mcp_message for initialize, tools/list and an unknown method
RpcOtherMethod(r, method) ==
    /\ loop = 0 /\ pc[r] = "pending" /\ route[r] = RpcRoute
    /\ loop' = r
    /\ pc' = [pc EXCEPT ![r] = "done"]
    /\ response' = [response EXCEPT ![r] =
          Some(CASE method = "initialize" ->
                      [kind |-> "initialize", name |-> <<"ffmpeg-mcp-server">>]
                 [] method = "tools/list" ->
                      [kind |-> "tools", name |-> <<"ffmpeg_execute">>,
                       default |-> Some(SchemaDefaultTimeout),
                       minimum |-> None, maximum |-> None]
                 [] OTHER -> RpcError(-32601, <<"Method not found: ", method>>))]
    /\ UNCHANGED <<route, req, args, failure, resolved, steps>>
    /\ UNCHANGED execVars

\* handle_mcp_message, tools/call for a tool other than ffmpeg_execute
RpcToolNotFound(r) ==
    /\ loop = 0 /\ pc[r] = "pending" /\ route[r] = RpcRoute
    /\ loop' = r
    /\ pc' = [pc EXCEPT ![r] = "done"]
    /\ response' = [response EXCEPT ![r] =
                      Some(RpcError(-32601, <<"Tool not found: ", "other_tool">>))]
    /\ UNCHANGED <<route, req, args, failure, resolved, steps>>
    /\ UNCHANGED execVars

\* invoke_tool for a tool other than ffmpeg.execute (raised outside the try)
RestToolNotFound(r) ==
    /\ loop = 0 /\ pc[r] = "pending" /\ route[r] = RestRoute
    /\ loop' = r
    /\ pc' = [pc EXCEPT ![r] = "done"]
    /\ response' = [response EXCEPT ![r] =
                      Some(HttpError(404, <<"Tool not found: ", "other.tool">>))]
    /\ UNCHANGED <<route, req, args, failure, resolved, steps>>
    /\ UNCHANGED execVars

\* handle_mcp_message, tools/call: args = FFmpegExecuteRequest(**arguments);
\* the ValueError it raises is answered with error -32602.
RpcParse(r, arguments) ==
    /\ loop = 0 /\ pc[r] = "pending" /\ route[r] = RpcRoute
    /\ loop' = r
    /\ \E a \in arguments :
        /\ req' = [req EXCEPT ![r] = a]
        /\ LET m == FFmpegExecuteRequest(a)
           IN IF m.ok
              THEN /\ args' = [args EXCEPT ![r] =
                                 [command |-> m.command, workingDir |-> m.workingDir,
                                  timeout |-> m.timeout]]
                   /\ pc' = [pc EXCEPT ![r] = "parsed"]
                   /\ UNCHANGED <<failure, response>>
              ELSE /\ failure' = [failure EXCEPT ![r] = m.reason]
                   /\ response' = [response EXCEPT ![r] =
                         Some(RpcError(-32602, <<"Invalid parameters: ">> \o m.error))]
                   /\ pc' = [pc EXCEPT ![r] = "done"]
                   /\ UNCHANGED args
    /\ UNCHANGED <<route, resolved, steps>>
    /\ UNCHANGED execVars

\* invoke_tool: args = FFmpegExecuteRequest(**request.arguments); the
\* ValueError it raises becomes HTTPException(400, detail=str(e)).
RestParse(r, arguments) ==
    /\ loop = 0 /\ pc[r] = "pending" /\ route[r] = RestRoute
    /\ loop' = r
    /\ \E a \in arguments :
        /\ req' = [req EXCEPT ![r] = a]
        /\ LET m == FFmpegExecuteRequest(a)
           IN IF m.ok
              THEN /\ args' = [args EXCEPT ![r] =
                                 [command |-> m.command, workingDir |-> m.workingDir,
                                  timeout |-> m.timeout]]
                   /\ pc' = [pc EXCEPT ![r] = "parsed"]
                   /\ UNCHANGED <<failure, response>>
              ELSE /\ failure' = [failure EXCEPT ![r] = m.reason]
                   /\ response' = [response EXCEPT ![r] = Some(HttpError(400, m.error))]
                   /\ pc' = [pc EXCEPT ![r] = "done"]
                   /\ UNCHANGED args
    /\ UNCHANGED <<route, resolved, steps>>
    /\ UNCHANGED execVars

\* handle_mcp_message: is_valid, error_msg = validate_command(args.command)
RpcValidateCommand(r) ==
    /\ pc[r] = "parsed" /\ route[r] = RpcRoute
    /\ steps' = [steps EXCEPT ![r] = Append(@, "validate_command")]
    /\ LET v == validate_command(args[r].command)
       IN IF v.valid
          THEN /\ pc' = [pc EXCEPT ![r] = "cmd_ok"]
               /\ UNCHANGED <<failure, response>>
          ELSE /\ failure' = [failure EXCEPT ![r] = Some(v.msg)]
               /\ response' = [response EXCEPT ![r] = Some(RpcValidatorFailure(v.msg))]
               /\ pc' = [pc EXCEPT ![r] = "done"]
    /\ UNCHANGED <<route, req, args, resolved, loop>>
    /\ UNCHANGED execVars

\* invoke_tool: is_valid, error_msg = validate_command(args.command)
RestValidateCommand(r) ==
    /\ pc[r] = "parsed" /\ route[r] = RestRoute
    /\ steps' = [steps EXCEPT ![r] = Append(@, "validate_command")]
    /\ LET v == validate_command(args[r].command)
       IN IF v.valid
          THEN /\ pc' = [pc EXCEPT ![r] = "cmd_ok"]
               /\ UNCHANGED <<failure, response>>
          ELSE /\ failure' = [failure EXCEPT ![r] = Some(v.msg)]
               /\ response' = [response EXCEPT ![r] = Some(RestValidatorFailure(v.msg))]
               /\ pc' = [pc EXCEPT ![r] = "done"]
    /\ UNCHANGED <<route, req, args, resolved, loop>>
    /\ UNCHANGED execVars

\* handle_mcp_message with the `return` after a failed working-directory
\* check missing: the handler goes on to execute with resolved_dir = None.
RpcValidateWorkingDir_NoReturn(r, cwd) ==
    /\ pc[r] = "cmd_ok" /\ route[r] = RpcRoute
    /\ steps' = [steps EXCEPT ![r] = Append(@, "validate_working_dir")]
    /\ LET v == validate_working_dir(args[r].workingDir, cwd)
       IN IF v.raised
          THEN /\ response' = [response EXCEPT ![r] =
                     Some(RpcError(-32603, <<"Internal error: ">> \o v.text))]
               /\ pc' = [pc EXCEPT ![r] = "done"]
               /\ UNCHANGED <<failure, resolved>>
          ELSE IF v.valid
          THEN /\ resolved' = [resolved EXCEPT ![r] = v.resolved]
               /\ pc' = [pc EXCEPT ![r] = "dir_ok"]
               /\ UNCHANGED <<failure, response>>
          ELSE /\ failure' = [failure EXCEPT ![r] = Some(v.msg)]
               /\ pc' = [pc EXCEPT ![r] = "dir_ok"]
               /\ UNCHANGED <<resolved, response>>
    /\ UNCHANGED <<route, req, args, loop>>
    /\ UNCHANGED execVars

\* handle_mcp_message: validate_working_dir(args.workingDir); an exception
\* out of it reaches the outer `except Exception` (error -32603).
RpcValidateWorkingDir(r, cwd) ==
    /\ pc[r] = "cmd_ok" /\ route[r] = RpcRoute
    /\ steps' = [steps EXCEPT ![r] = Append(@, "validate_working_dir")]
    /\ LET v == validate_working_dir(args[r].workingDir, cwd)
       IN IF v.raised
          THEN /\ response' = [response EXCEPT ![r] =
                     Some(RpcError(-32603, <<"Internal error: ">> \o v.text))]
               /\ pc' = [pc EXCEPT ![r] = "done"]
               /\ UNCHANGED <<failure, resolved>>
          ELSE IF v.valid
          THEN /\ resolved' = [resolved EXCEPT ![r] = v.resolved]
               /\ pc' = [pc EXCEPT ![r] = "dir_ok"]
               /\ UNCHANGED <<failure, response>>
          ELSE /\ failure' = [failure EXCEPT ![r] = Some(v.msg)]
               /\ response' = [response EXCEPT ![r] = Some(RpcValidatorFailure(v.msg))]
               /\ pc' = [pc EXCEPT ![r] = "done"]
               /\ UNCHANGED resolved
    /\ UNCHANGED <<route, req, args, loop>>
    /\ UNCHANGED execVars

\* invoke_tool: validate_working_dir(args.workingDir); an exception out of it
\* reaches `except Exception` (HTTP 500).
RestValidateWorkingDir(r, cwd) ==
    /\ pc[r] = "cmd_ok" /\ route[r] = RestRoute
    /\ steps' = [steps EXCEPT ![r] = Append(@, "validate_working_dir")]
    /\ LET v == validate_working_dir(args[r].workingDir, cwd)
       IN IF v.raised
          THEN /\ response' = [response EXCEPT ![r] =
                     Some(HttpError(500, <<"Internal server error: ">> \o v.text))]
               /\ pc' = [pc EXCEPT ![r] = "done"]
               /\ UNCHANGED <<failure, resolved>>
          ELSE IF v.valid
          THEN /\ resolved' = [resolved EXCEPT ![r] = v.resolved]
               /\ pc' = [pc EXCEPT ![r] = "dir_ok"]
               /\ UNCHANGED <<failure, response>>
          ELSE /\ failure' = [failure EXCEPT ![r] = Some(v.msg)]
               /\ response' = [response EXCEPT ![r] = Some(RestValidatorFailure(v.msg))]
               /\ pc' = [pc EXCEPT ![r] = "done"]
               /\ UNCHANGED resolved
    /\ UNCHANGED <<route, req, args, loop>>
    /\ UNCHANGED execVars

\* ----------------------------------------------- FFmpegExecutor.execute

\* execute is called and subprocess.run starts the shell (Popen succeeds):
\* the shell either runs ffmpeg in its own place or as a process of its own.
ExecSpawn(r, tree) ==
    /\ pc[r] = "dir_ok"
    /\ steps' = [steps EXCEPT ![r] = Append(@, "execute")]
    /\ execTimeout' = [execTimeout EXCEPT ![r] = CallTimeout(args[r].timeout)]
    /\ execHist' = [execHist EXCEPT ![r] = <<"Idle", "Running">>]
    /\ launches' = [launches EXCEPT ![r] = @ + 1]
    /\ child' = [child EXCEPT ![r] = "running"]
    /\ desc' = [desc EXCEPT ![r] = tree]
    /\ pc' = [pc EXCEPT ![r] = "running"]
    /\ UNCHANGED <<route, req, args, failure, resolved, response, loop, results, result>>

\* execute is called and Popen raises (the working directory vanished, the
\* shell cannot be started): no process exists; `except Exception` builds
\* the result.
ExecSpawnFail(r, e) ==
    /\ pc[r] = "dir_ok"
    /\ steps' = [steps EXCEPT ![r] = Append(@, "execute")]
    /\ execTimeout' = [execTimeout EXCEPT ![r] = CallTimeout(args[r].timeout)]
    /\ execHist' = [execHist EXCEPT ![r] = <<"Idle", "Faulted">>]
    /\ results' = [results EXCEPT ![r] = @ + 1]
    /\ result' = [result EXCEPT ![r] =
                    Some(ExecutionResult(ErrorOutcome(e), CallTimeout(args[r].timeout)))]
    /\ pc' = [pc EXCEPT ![r] = "executed"]
    /\ UNCHANGED <<route, req, args, failure, resolved, response, loop,
                   child, desc, launches>>

\* A process the shell started exits by itself.
DescExit(r) ==
    /\ desc[r] = "running"
    /\ desc' = [desc EXCEPT ![r] = "exited"]
    /\ UNCHANGED <<pc, loop, execHist, execTimeout, child, launches, results, result>>
    /\ UNCHANGED handlerVars

\* The child exits and its pipes reach end of file (its own children, which
\* hold the pipes, have exited): communicate() returns.
ExecExit(r, code, out, err) ==
    /\ pc[r] = "running" /\ child[r] = "running" /\ desc[r] # "running"
    /\ child' = [child EXCEPT ![r] = "exited"]
    /\ execHist' = [execHist EXCEPT ![r] = Append(@, "Completed")]
    /\ results' = [results EXCEPT ![r] = @ + 1]
    /\ result' = [result EXCEPT ![r] =
                    Some(ExecutionResult(ExitOutcome(code, out, err), execTimeout[r]))]
    /\ pc' = [pc EXCEPT ![r] = "executed"]
    /\ UNCHANGED <<desc, launches, execTimeout, loop>>
    /\ UNCHANGED handlerVars

\* The timeout expires: subprocess.run kills the process Popen started (and
\* only that one), waits for it and raises TimeoutExpired.
ExecTimeout(r) ==
    /\ pc[r] = "running" /\ child[r] = "running"
    /\ ~IsNone(execTimeout[r])
    /\ child' = [child EXCEPT ![r] = "killed"]
    /\ execHist' = [execHist EXCEPT ![r] = Append(@, "TimedOut")]
    /\ results' = [results EXCEPT ![r] = @ + 1]
    /\ result' = [result EXCEPT ![r] =
                    Some(ExecutionResult(TimeoutOutcome, execTimeout[r]))]
    /\ pc' = [pc EXCEPT ![r] = "executed"]
    /\ UNCHANGED <<desc, launches, execTimeout, loop>>
    /\ UNCHANGED handlerVars

\* execute retrying after an exception while the child runs: the child is
\* killed and the command is started once more.
ExecFault_Retry(r, e) ==
    /\ pc[r] = "running" /\ child[r] = "running"
    /\ launches[r] < 3
    /\ launches' = [launches EXCEPT ![r] = @ + 1]
    /\ UNCHANGED <<pc, loop, execHist, execTimeout, child, desc, results, result>>
    /\ UNCHANGED handlerVars

\* Another exception while the child runs (its output cannot be decoded):
\* subprocess.run kills the process Popen started and re-raises.
ExecFault(r, e) ==
    /\ pc[r] = "running" /\ child[r] = "running"
    /\ child' = [child EXCEPT ![r] = "killed"]
    /\ execHist' = [execHist EXCEPT ![r] = Append(@, "Faulted")]
    /\ results' = [results EXCEPT ![r] = @ + 1]
    /\ result' = [result EXCEPT ![r] =
                    Some(ExecutionResult(ErrorOutcome(e), execTimeout[r]))]
    /\ pc' = [pc EXCEPT ![r] = "executed"]
    /\ UNCHANGED <<desc, launches, execTimeout, loop>>
    /\ UNCHANGED handlerVars

\* handle_mcp_message: format what execute returned
RpcRespond(r) ==
    /\ pc[r] = "executed" /\ route[r] = RpcRoute
    /\ response' = [response EXCEPT ![r] = Some(RpcExecResponse(Val(result[r])))]
    /\ pc' = [pc EXCEPT ![r] = "done"]
    /\ UNCHANGED <<route, req, args, failure, resolved, steps, loop>>
    /\ UNCHANGED execVars

\* invoke_tool: return what execute returned
RestRespond(r) ==
    /\ pc[r] = "executed" /\ route[r] = RestRoute
    /\ response' = [response EXCEPT ![r] = Some(RestExecResponse(Val(result[r])))]
    /\ pc' = [pc EXCEPT ![r] = "done"]
    /\ UNCHANGED <<route, req, args, failure, resolved, steps, loop>>
    /\ UNCHANGED execVars

\* The response is sent and the request is over: the handler's locals are
\* gone and the event loop takes the next request.
Deliver(r) ==
    /\ pc[r] = "done" /\ loop = r
    /\ loop' = 0
    /\ pc' = [pc EXCEPT ![r] = "idle"]
    /\ route' = [route EXCEPT ![r] = "none"]
    /\ req' = [req EXCEPT ![r] = NoArgs]
    /\ args' = [args EXCEPT ![r] = NoArgs]
    /\ failure' = [failure EXCEPT ![r] = None]
    /\ resolved' = [resolved EXCEPT ![r] = None]
    /\ steps' = [steps EXCEPT ![r] = <<>>]
    /\ response' = [response EXCEPT ![r] = None]
    /\ execHist' = [execHist EXCEPT ![r] = <<>>]
    /\ execTimeout' = [execTimeout EXCEPT ![r] = None]
    /\ child' = [child EXCEPT ![r] = "none"]
    /\ desc' = [desc EXCEPT ![r] = "none"]
    /\ launches' = [launches EXCEPT ![r] = 0]
    /\ results' = [results EXCEPT ![r] = 0]
    /\ result' = [result EXCEPT ![r] = None]

Next ==
    \E r \in Reqs :
        \/ \E rt \in Routes : Receive(r, rt)
        \/ HealthCheck(r)
        \/ GetTools(r)
        \/ \E m \in OtherMethods : RpcOtherMethod(r, m)
        \/ RpcToolNotFound(r)
        \/ RestToolNotFound(r)
        \/ RpcParse(r, Arguments)
        \/ RestParse(r, Arguments)
        \/ RpcValidateCommand(r)
        \/ RestValidateCommand(r)
        \/ \E cwd \in GetcwdOutcomes : RpcValidateWorkingDir(r, cwd)
        \/ \E cwd \in GetcwdOutcomes : RestValidateWorkingDir(r, cwd)
        \/ \E tree \in {"none", "running"} : ExecSpawn(r, tree)
        \/ \E e \in SpawnErrors : ExecSpawnFail(r, e)
        \/ DescExit(r)
        \/ \E code \in ExitCodes, o \in Outputs : ExecExit(r, code, o[1], o[2])
        \/ ExecTimeout(r)
        \/ \E e \in RunErrors : ExecFault(r, e)
        \/ RpcRespond(r)
        \/ RestRespond(r)
        \/ Deliver(r)

Spec == Init /\ [][Next]_vars

\* The same handlers serving one tool call at a time, over every generated
\* command.
NextCommands ==
    \/ Receive(1, RpcRoute)
    \/ Receive(1, RestRoute)
    \/ RpcParse(1, CommandArguments)
    \/ RestParse(1, CommandArguments)
    \/ RpcValidateCommand(1)
    \/ RestValidateCommand(1)
    \/ \E cwd \in GetcwdOutcomes : RpcValidateWorkingDir(1, cwd)
    \/ \E cwd \in GetcwdOutcomes : RestValidateWorkingDir(1, cwd)
    \/ \E tree \in {"none", "running"} : ExecSpawn(1, tree)
    \/ \E e \in SpawnErrors : ExecSpawnFail(1, e)
    \/ DescExit(1)
    \/ \E code \in ExitCodes, o \in Outputs : ExecExit(1, code, o[1], o[2])
    \/ ExecTimeout(1)
    \/ \E e \in RunErrors : ExecFault(1, e)
    \/ RpcRespond(1)
    \/ RestRespond(1)
    \/ Deliver(1)

SpecCommands == Init /\ [][NextCommands]_vars

\* ---------------------------------------------------------- the claims

Last(s) == s[Len(s)]
Range(s) == {s[i] : i \in 1..Len(s)}
IsPrefixOf(s, t) == Len(s) <= Len(t) /\ s = SubSeq(t, 1, Len(s))

HandlerOrder == <<"validate_command", "validate_working_dir", "execute">>
Terminal == {"Completed", "TimedOut", "Faulted"}

\* C1: the calls of a tool invocation are made in the order validate_command,
\* validate_working_dir, execute, and a request for which execute was called
\* or a process was started has passed both checks: no validator gave a
\* failure reason, its command is valid and its working directory resolved to
\* an existing directory.
C1_ExecuteOnlyAfterBothValidations ==
    \A r \in Reqs :
        /\ IsPrefixOf(steps[r], HandlerOrder)
        /\ (launches[r] > 0 \/ execHist[r] # <<>> \/ child[r] # "none") =>
              /\ steps[r] = HandlerOrder
              /\ IsNone(failure[r])
              /\ validate_command(args[r].command).valid
              /\ ~IsNone(resolved[r])
              /\ PathKind(Val(resolved[r])) = "dir"

\* C1 witness: a request went through both checks and its process was started.
C1_Witness ==
    \E r \in Reqs :
        /\ steps[r] = HandlerOrder
        /\ launches[r] = 1
        /\ child[r] = "running"
        /\ req[r].workingDir = Some(<<"clips">>)

\* The operator substrings the denylist is documented to hold.
DenylistedOperators ==
    { <<"&", "&">>, <<"|", "|">>, <<";">>, <<"|">>, <<">">>, <<"<">>,
      <<Backtick>>, <<"$">>, <<"$", "(">>, <<"$", "{">> }
HasDenylistedOperator(c) == \E op \in DenylistedOperators : Contains(c, op)

InvalidCommandReasons ==
    {"Command must start with 'ffmpeg '", "Blocked shell operator detected: "}

\* C2: a submitted command that contains a denylisted operator anywhere is
\* rejected by validate_command, never gets past command validation (no
\* working-directory check, no execute call, no process), and its request
\* ends with an invalid-command reason.
C2_DenylistedOperatorRejected ==
    \A r \in Reqs :
        HasDenylistedOperator(req[r].command) =>
            /\ ~validate_command(req[r].command).valid
            /\ pc[r] \in {"pending", "parsed", "done"}
            /\ steps[r] \in {<<>>, <<"validate_command">>}
            /\ launches[r] = 0 /\ child[r] = "none" /\ execHist[r] = <<>>
            /\ pc[r] = "done" =>
                  /\ ~IsNone(failure[r])
                  /\ Head(Val(failure[r])) \in InvalidCommandReasons

\* C2 witness: a command that starts with "ffmpeg " and holds an operator was
\* rejected by the denylist check.
C2_Witness ==
    \E r \in Reqs :
        /\ pc[r] = "done"
        /\ StartsWith(req[r].command, FFMPEG_PREFIX)
        /\ HasDenylistedOperator(req[r].command)
        /\ steps[r] = <<"validate_command">>
        /\ Head(Val(failure[r])) = "Blocked shell operator detected: "

HasNewline(c) == Contains(c, <<"\n">>) \/ Contains(c, <<"\r">>)

\* C3: a request whose submitted command contains a line feed or a carriage
\* return at any position does not pass validation: execute is never called
\* for it and no process is started.
C3_NewlineRejected ==
    \A r \in Reqs :
        HasNewline(req[r].command) =>
            /\ "execute" \notin Range(steps[r])
            /\ launches[r] = 0

\* C4: every validator failure is answered with a client error (JSON-RPC
\* -32602, HTTP 400) whose message carries the validator's reason verbatim
\* (the reason is read here as a part of the message, which is the reading
\* most favourable to the handlers).
C4_ValidatorFailureIsClientError ==
    \A r \in Reqs :
        (pc[r] = "done" /\ ~IsNone(failure[r])) =>
            LET resp == Val(response[r])
            IN /\ route[r] = RpcRoute =>
                     /\ resp.kind = "rpc_error"
                     /\ resp.code = -32602
                     /\ Contains(resp.message, Val(failure[r]))
               /\ route[r] = RestRoute =>
                     /\ resp.kind = "http_error"
                     /\ resp.status = 400
                     /\ Contains(resp.detail, Val(failure[r]))

FailureTexts == {"Command timed out after ", "Execution error: "}

\* C5: once execute has been called, whatever the process did, execute
\* returns a result dict (it never raises), the handler answers with a normal
\* result (JSON-RPC result, HTTP 200 body), and a timeout or fault result has
\* success false, exit code -1, empty stdout and the failure text in stderr
\* and in error.
C5_ExecutionAlwaysYieldsResult ==
    \A r \in Reqs :
        "execute" \in Range(steps[r]) =>
            /\ pc[r] \in {"running", "executed", "done"}
            /\ pc[r] \in {"executed", "done"} =>
                  /\ ~IsNone(result[r])
                  /\ ~Val(result[r]).raised
                  /\ Last(execHist[r]) \in Terminal
                  /\ Last(execHist[r]) \in {"TimedOut", "Faulted"} =>
                        LET v == Val(result[r]).value
                        IN /\ v.success = FALSE
                           /\ v.exitCode = -1
                           /\ v.logs.stdout = <<>>
                           /\ "error" \in DOMAIN v
                           /\ v.logs.stderr = v.error
                           /\ Head(v.error) \in FailureTexts
            /\ pc[r] = "done" =>
                  /\ route[r] = RpcRoute => Val(response[r]).kind = "rpc_result"
                  /\ route[r] = RestRoute =>
                        /\ Val(response[r]).kind = "http_ok"
                        /\ Val(response[r]).status = 200

\* C5 witness: a spawn failure was answered with a normal result.
C5_Witness ==
    \E r \in Reqs :
        /\ pc[r] = "done"
        /\ execHist[r] = <<"Idle", "Faulted">>
        /\ Val(response[r]).kind \in {"rpc_result", "http_ok"}
        /\ Val(result[r]).value.exitCode = -1

\* C6: a request that gives no timeout is executed without one, and its
\* execution never ends in the TimedOut outcome.
C6_NoTimeoutMeansUnlimited ==
    \A r \in Reqs :
        ("execute" \in Range(steps[r]) /\ IsNone(req[r].timeout)) =>
            /\ IsNone(execTimeout[r])
            /\ "TimedOut" \notin Range(execHist[r])

\* C7: execute is called with the timeout the discovery schema advertises:
\* the schema's default when the request gives none, and never a value above
\* the schema's maximum.
C7_TimeoutFollowsSchema ==
    \A r \in Reqs :
        "execute" \in Range(steps[r]) =>
            /\ ~IsNone(execTimeout[r])
            /\ IsNone(req[r].timeout) => Val(execTimeout[r]) = SchemaDefaultTimeout
            /\ Val(execTimeout[r]) <= SchemaMaxTimeout
            /\ Val(execTimeout[r]) >= SchemaMinTimeout

\* C8: when the timed-out result exists, neither the process Popen started
\* nor any process it started is still running.
C8_TimeoutKillsProcessTree ==
    \A r \in Reqs :
        (~IsNone(result[r]) /\ Last(execHist[r]) = "TimedOut") =>
            /\ child[r] # "running"
            /\ desc[r] # "running"

\* C9: the response to an executed invocation carries the success flag, the
\* exit code, stdout, stderr and, when the result has one, its error message,
\* on the JSON-RPC path (in the text and isError) and on the REST path (in
\* the result object).
C9_ResponseCarriesResult ==
    \A r \in Reqs :
        (pc[r] = "done" /\ ~IsNone(result[r])) =>
            LET v == Val(result[r]).value
                resp == Val(response[r])
            IN /\ route[r] = RpcRoute =>
                     /\ resp.kind = "rpc_result"
                     /\ resp.isError = ~v.success
                     /\ Contains(resp.text, IntStr(v.exitCode))
                     /\ Contains(resp.text, v.logs.stdout)
                     /\ Contains(resp.text, v.logs.stderr)
                     /\ "error" \in DOMAIN v => Contains(resp.text, v.error)
               /\ route[r] = RestRoute =>
                     /\ resp.kind = "http_ok"
                     /\ resp.result.success = v.success
                     /\ resp.result.exitCode = v.exitCode
                     /\ resp.result.logs = v.logs
                     /\ "error" \in DOMAIN v =>
                           /\ "error" \in DOMAIN resp.result
                           /\ resp.result.error = v.error

\* C10 as stated: an execute call goes Idle, Running, then one terminal
\* state; exactly one process is started per call (none before Running, one
\* from then on, never two); a terminal state is entered only from Running
\* and is the last state; the call builds exactly one result, on entering
\* its terminal state.
C10_StateMachineAsStated ==
    \A r \in Reqs :
        LET h == execHist[r]
        IN /\ launches[r] <= 1
           /\ h # <<>> =>
                 /\ h[1] = "Idle"
                 /\ \A i \in 1..Len(h) :
                       h[i] \in Terminal => (i = Len(h) /\ i > 1 /\ h[i - 1] = "Running")
                 /\ Last(h) \in Terminal => (launches[r] = 1 /\ results[r] = 1)
                 /\ Last(h) \notin Terminal => results[r] = 0
           /\ h = <<>> => (launches[r] = 0 /\ results[r] = 0)

\* C10 amended: an execute call goes Idle, then either Running and one
\* terminal state, or straight to Faulted when Popen itself fails; at most
\* one process is started per call, and one exactly when the call reached
\* Running; Completed and TimedOut are entered only from Running; a terminal
\* state is the last state; the call builds exactly one result, on entering
\* its terminal state.
C10_StateMachineAmended ==
    \A r \in Reqs :
        LET h == execHist[r]
        IN /\ launches[r] <= 1
           /\ h # <<>> =>
                 /\ h[1] = "Idle"
                 /\ Len(h) >= 2
                 /\ launches[r] = (IF "Running" \in Range(h) THEN 1 ELSE 0)
                 /\ \A i \in 1..Len(h) :
                       /\ h[i] \in Terminal => (i = Len(h) /\ i > 1)
                       /\ h[i] \in {"Completed", "TimedOut"} => h[i - 1] = "Running"
                       /\ h[i] = "Faulted" => h[i - 1] \in {"Idle", "Running"}
                       /\ h[i] = "Running" => (i = 2 /\ child[r] # "none")
                       /\ h[i] = "Idle" => i = 1
                 /\ Last(h) \in Terminal => (results[r] = 1 /\ ~IsNone(result[r]))
                 /\ Last(h) \notin Terminal => (results[r] = 0 /\ IsNone(result[r]))
           /\ h = <<>> => (launches[r] = 0 /\ results[r] = 0)

\* C10 witness: Popen failed, so the call went from Idle to Faulted without a
\* process, and built its one result.
C10_Witness ==
    \E r \in Reqs :
        /\ execHist[r] = <<"Idle", "Faulted">>
        /\ launches[r] = 0
        /\ results[r] = 1

\* The event loop starts the handler of request q (any route).
HandlerStart(q) ==
    \/ HealthCheck(q)
    \/ GetTools(q)
    \/ \E m \in OtherMethods : RpcOtherMethod(q, m)
    \/ RpcToolNotFound(q)
    \/ RestToolNotFound(q)
    \/ RpcParse(q, Arguments)
    \/ RestParse(q, Arguments)

\* C11: requests are handled independently of each other's executions: a
\* request that has arrived (a tool call, a health or a discovery request)
\* can be handled while the child process of another request is running; it
\* does not have to wait for that process to exit.  (This is the step by
\* which two children of different requests would come to run at once.)
C11_HandledWhileAnotherChildRuns ==
    \A r \in Reqs : \A q \in Reqs :
        (r # q /\ pc[r] = "running" /\ child[r] = "running" /\ pc[q] = "pending")
            => ENABLED HandlerStart(q)

====
